---- MODULE Spec2Model ----
(***************************************************************************)
(* Policy conditions of a NodeNetworkConfigurationPolicy:                  *)
(* pkg/controller/nodenetworkconfigurationpolicy/policyconditions.         *)
(*                                                                         *)
(* Update and Reset are read-compute-write closures run under              *)
(* retry.RetryOnConflict against an object store with optimistic           *)
(* concurrency (resourceVersion compare on the status write).              *)
(***************************************************************************)
EXTENDS Integers, Sequences, FiniteSets, TLC

(***************************************************************************)
(* Bounds of the model.                                                    *)
(***************************************************************************)
\* largest value of readyNodes and of each enactment count in the
\* decision-procedure harness
MaxCount == 3
\* number of cluster nodes (one enactment per node and policy)
NumNodes == 1
\* the other writers of the policy object write to it only while its
\* resourceVersion is below this value
MaxVersion == 5
\* largest number of conditions of a node in the ready-count harness
MaxNodeConditions == 2

(***************************************************************************)
(* Program constants.                                                      *)
(***************************************************************************)
\* retry.DefaultRetry.Steps: the number of attempts of RetryOnConflict
MaxAttempts == 5

\* condition types of a policy
NodeNetworkConfigurationPolicyConditionDegraded == "Degraded"
NodeNetworkConfigurationPolicyConditionAvailable == "Available"
\* condition reasons of a policy
NodeNetworkConfigurationPolicyConditionConfigurationProgressing == "ConfigurationProgressing"
NodeNetworkConfigurationPolicyConditionSuccessfullyConfigured == "SuccessfullyConfigured"
NodeNetworkConfigurationPolicyConditionConfigurationNoMatchingNode == "ConfigurationNoMatchingNode"
NodeNetworkConfigurationPolicyConditionFailedToConfigure == "FailedToConfigure"
\* corev1.ConditionStatus
ConditionTrue == "True"
ConditionFalse == "False"
ConditionUnknown == "Unknown"
\* corev1.NodeConditionType
NodeReady == "Ready"
NodeMemoryPressure == "MemoryPressure"
NodeDiskPressure == "DiskPressure"

(***************************************************************************)
(* fmt.Sprintf("%d", n) for n >= 0: the decimal digits of n.               *)
(***************************************************************************)
Digit(d) ==
    CASE d = 0 -> "0" [] d = 1 -> "1" [] d = 2 -> "2" [] d = 3 -> "3"
      [] d = 4 -> "4" [] d = 5 -> "5" [] d = 6 -> "6" [] d = 7 -> "7"
      [] d = 8 -> "8" [] d = 9 -> "9"

RECURSIVE FormatInt(_)
FormatInt(n) ==
    IF n < 10 THEN Digit(n) ELSE FormatInt(n \div 10) \o Digit(n % 10)

\* fmt.Sprintf("Policy is progressing %d/%d nodes finished", finished, ready)
ProgressingMessage(finished, ready) ==
    "Policy is progressing " \o FormatInt(finished) \o "/" \o FormatInt(ready)
        \o " nodes finished"

\* "Policy does not match any node"
NotMatchingMessage == "Policy does not match any node"

\* FailedMessage with its two arguments exchanged
FailedMessageSwapped(failed, matching) ==
    FormatInt(matching) \o "/" \o FormatInt(failed) \o " nodes failed to configure"

\* fmt.Sprintf("%d/%d nodes failed to configure", failed, matching)
FailedMessage(failed, matching) ==
    FormatInt(failed) \o "/" \o FormatInt(matching) \o " nodes failed to configure"

\* fmt.Sprintf("%d/%d nodes successfully configured", a, b)
SuccessMessage(a, b) ==
    FormatInt(a) \o "/" \o FormatInt(b) \o " nodes successfully configured"

(***************************************************************************)
(* ConditionList: an ordered list of conditions, one per type.             *)
(***************************************************************************)
Condition(type, status, reason, message) ==
    [type |-> type, status |-> status, reason |-> reason, message |-> message]

\* ConditionList.Set: overwrite the condition of that type in place, or append
Set(conditions, type, status, reason, message) ==
    IF \E i \in 1..Len(conditions) : conditions[i].type = type
    THEN [i \in 1..Len(conditions) |->
            IF conditions[i].type = type
            THEN Condition(type, status, reason, message)
            ELSE conditions[i]]
    ELSE Append(conditions, Condition(type, status, reason, message))

setPolicyProgressing(conditions, message) ==
    Set(Set(conditions,
            NodeNetworkConfigurationPolicyConditionDegraded, ConditionUnknown,
            NodeNetworkConfigurationPolicyConditionConfigurationProgressing, ""),
        NodeNetworkConfigurationPolicyConditionAvailable, ConditionUnknown,
        NodeNetworkConfigurationPolicyConditionConfigurationProgressing, message)

\* setPolicySuccess that appends its two conditions instead of calling Set
setPolicySuccessAppend(conditions, message) ==
    Append(Append(conditions,
               Condition(NodeNetworkConfigurationPolicyConditionDegraded,
                         ConditionFalse,
                         NodeNetworkConfigurationPolicyConditionSuccessfullyConfigured,
                         "")),
           Condition(NodeNetworkConfigurationPolicyConditionAvailable,
                     ConditionTrue,
                     NodeNetworkConfigurationPolicyConditionSuccessfullyConfigured,
                     message))

setPolicySuccess(conditions, message) ==
    Set(Set(conditions,
            NodeNetworkConfigurationPolicyConditionDegraded, ConditionFalse,
            NodeNetworkConfigurationPolicyConditionSuccessfullyConfigured, ""),
        NodeNetworkConfigurationPolicyConditionAvailable, ConditionTrue,
        NodeNetworkConfigurationPolicyConditionSuccessfullyConfigured, message)

setPolicyNotMatching(conditions, message) ==
    Set(Set(conditions,
            NodeNetworkConfigurationPolicyConditionDegraded, ConditionFalse,
            NodeNetworkConfigurationPolicyConditionConfigurationNoMatchingNode, message),
        NodeNetworkConfigurationPolicyConditionAvailable, ConditionTrue,
        NodeNetworkConfigurationPolicyConditionConfigurationNoMatchingNode, message)

\* setPolicyFailedToConfigure without its second Set
setPolicyFailedDegradedOnly(conditions, message) ==
    Set(conditions,
        NodeNetworkConfigurationPolicyConditionDegraded, ConditionTrue,
        NodeNetworkConfigurationPolicyConditionFailedToConfigure, message)

\* setPolicyFailedToConfigure that leaves Available at True
setPolicyFailedAvailableTrue(conditions, message) ==
    Set(Set(conditions,
            NodeNetworkConfigurationPolicyConditionDegraded, ConditionTrue,
            NodeNetworkConfigurationPolicyConditionFailedToConfigure, message),
        NodeNetworkConfigurationPolicyConditionAvailable, ConditionTrue,
        NodeNetworkConfigurationPolicyConditionFailedToConfigure, "")

setPolicyFailedToConfigure(conditions, message) ==
    Set(Set(conditions,
            NodeNetworkConfigurationPolicyConditionDegraded, ConditionTrue,
            NodeNetworkConfigurationPolicyConditionFailedToConfigure, message),
        NodeNetworkConfigurationPolicyConditionAvailable, ConditionFalse,
        NodeNetworkConfigurationPolicyConditionFailedToConfigure, "")

(***************************************************************************)
(* The decision of one Update attempt (conditions.go lines 125-141).       *)
(* enactmentsCount is a record [matching, available, failed, notMatching]. *)
(***************************************************************************)
numberOfFinishedEnactments(enactmentsCount) ==
    enactmentsCount.available + enactmentsCount.failed + enactmentsCount.notMatching

\* Decide with the failed test moved in front of the progressing test
DecideFailedFirst(conditions, numberOfReadyNodes, enactmentsCount) ==
    IF enactmentsCount.failed > 0 /\ enactmentsCount.matching > 0
    THEN setPolicyFailedToConfigure(conditions,
            FailedMessage(enactmentsCount.failed, enactmentsCount.matching))
    ELSE IF numberOfFinishedEnactments(enactmentsCount) < numberOfReadyNodes
         THEN setPolicyProgressing(conditions,
                 ProgressingMessage(numberOfFinishedEnactments(enactmentsCount),
                                    numberOfReadyNodes))
         ELSE IF enactmentsCount.matching = 0
              THEN setPolicyNotMatching(conditions, NotMatchingMessage)
              ELSE setPolicySuccess(conditions,
                      SuccessMessage(enactmentsCount.available,
                                     enactmentsCount.available))

\* Decide with matching as the denominator of the success message
DecideMatchingDenominator(conditions, numberOfReadyNodes, enactmentsCount) ==
    IF numberOfFinishedEnactments(enactmentsCount) < numberOfReadyNodes
    THEN setPolicyProgressing(conditions,
            ProgressingMessage(numberOfFinishedEnactments(enactmentsCount),
                               numberOfReadyNodes))
    ELSE IF enactmentsCount.matching = 0
         THEN setPolicyNotMatching(conditions, NotMatchingMessage)
         ELSE IF enactmentsCount.failed > 0
              THEN setPolicyFailedToConfigure(conditions,
                      FailedMessage(enactmentsCount.failed, enactmentsCount.matching))
              ELSE setPolicySuccess(conditions,
                      SuccessMessage(enactmentsCount.available,
                                     enactmentsCount.matching))

\* Decide with the failed test in front of the matching = 0 test
DecideFailedBeforeNotMatching(conditions, numberOfReadyNodes, enactmentsCount) ==
    IF numberOfFinishedEnactments(enactmentsCount) < numberOfReadyNodes
    THEN setPolicyProgressing(conditions,
            ProgressingMessage(numberOfFinishedEnactments(enactmentsCount),
                               numberOfReadyNodes))
    ELSE IF enactmentsCount.failed > 0
         THEN setPolicyFailedToConfigure(conditions,
                 FailedMessage(enactmentsCount.failed, enactmentsCount.matching))
         ELSE IF enactmentsCount.matching = 0
              THEN setPolicyNotMatching(conditions, NotMatchingMessage)
              ELSE setPolicySuccess(conditions,
                      SuccessMessage(enactmentsCount.available,
                                     enactmentsCount.available))

\* Decide with the comparison of line 128 turned around
DecideComparisonTurned(conditions, numberOfReadyNodes, enactmentsCount) ==
    IF numberOfReadyNodes < numberOfFinishedEnactments(enactmentsCount)
    THEN setPolicyProgressing(conditions,
            ProgressingMessage(numberOfFinishedEnactments(enactmentsCount),
                               numberOfReadyNodes))
    ELSE IF enactmentsCount.matching = 0
         THEN setPolicyNotMatching(conditions, NotMatchingMessage)
         ELSE IF enactmentsCount.failed > 0
              THEN setPolicyFailedToConfigure(conditions,
                      FailedMessage(enactmentsCount.failed, enactmentsCount.matching))
              ELSE setPolicySuccess(conditions,
                      SuccessMessage(enactmentsCount.available,
                                     enactmentsCount.available))

\* Decide with the matching = 0 test in front of the progressing test
DecideNotMatchingFirst(conditions, numberOfReadyNodes, enactmentsCount) ==
    IF enactmentsCount.matching = 0
    THEN setPolicyNotMatching(conditions, NotMatchingMessage)
    ELSE IF numberOfFinishedEnactments(enactmentsCount) < numberOfReadyNodes
         THEN setPolicyProgressing(conditions,
                 ProgressingMessage(numberOfFinishedEnactments(enactmentsCount),
                                    numberOfReadyNodes))
         ELSE IF enactmentsCount.failed > 0
              THEN setPolicyFailedToConfigure(conditions,
                      FailedMessage(enactmentsCount.failed, enactmentsCount.matching))
              ELSE setPolicySuccess(conditions,
                      SuccessMessage(enactmentsCount.available,
                                     enactmentsCount.available))

Decide(conditions, numberOfReadyNodes, enactmentsCount) ==
    IF numberOfFinishedEnactments(enactmentsCount) < numberOfReadyNodes
    THEN setPolicyProgressing(conditions,
            ProgressingMessage(numberOfFinishedEnactments(enactmentsCount),
                               numberOfReadyNodes))
    ELSE IF enactmentsCount.matching = 0
         THEN setPolicyNotMatching(conditions, NotMatchingMessage)
         ELSE IF enactmentsCount.failed > 0
              THEN setPolicyFailedToConfigure(conditions,
                      FailedMessage(enactmentsCount.failed, enactmentsCount.matching))
              ELSE setPolicySuccess(conditions,
                      SuccessMessage(enactmentsCount.available,
                                     enactmentsCount.available))

(***************************************************************************)
(* Objects of the store.                                                   *)
(***************************************************************************)
Nodes == 1..NumNodes

\* the concurrent callers of Update / Reset (reconcilers of controller replicas)
Procs == {"r1", "r2"}

\* An enactment, by the classes enactmentconditions.Count counts it in.
Enactment(matching, available, failed, notMatching) ==
    [matching |-> matching, available |-> available,
     failed |-> failed, notMatching |-> notMatching]

EnactmentProgressing == Enactment(TRUE, FALSE, FALSE, FALSE)
EnactmentAvailable == Enactment(TRUE, TRUE, FALSE, FALSE)
EnactmentFailed == Enactment(TRUE, FALSE, TRUE, FALSE)
EnactmentNotMatching == Enactment(FALSE, FALSE, FALSE, TRUE)

\* the values a node agent reports for its enactment
EnactmentValues ==
    {EnactmentProgressing, EnactmentAvailable, EnactmentFailed, EnactmentNotMatching}

\* node.Status.Conditions: a sequence of (type, status) pairs
NodeCondition(type, status) == [type |-> type, status |-> status]

NodeStatusReady ==
    <<NodeCondition(NodeMemoryPressure, ConditionFalse),
      NodeCondition(NodeReady, ConditionTrue)>>
NodeStatusNotReady ==
    <<NodeCondition(NodeMemoryPressure, ConditionFalse),
      NodeCondition(NodeReady, ConditionFalse)>>

NodeStatusValues == {NodeStatusReady, NodeStatusNotReady}

\* the sum of f[x] over the elements x of the finite set S
RECURSIVE SumOver(_, _)
SumOver(S, f) ==
    IF S = {} THEN 0
    ELSE LET x == CHOOSE y \in S : TRUE IN f[x] + SumOver(S \ {x}, f)

\* enactmentconditions.Count: per class, the number of enactments in it
Count(enactments) ==
    [matching |-> SumOver(DOMAIN enactments,
                    [n \in DOMAIN enactments |-> IF enactments[n].matching THEN 1 ELSE 0]),
     available |-> SumOver(DOMAIN enactments,
                    [n \in DOMAIN enactments |-> IF enactments[n].available THEN 1 ELSE 0]),
     failed |-> SumOver(DOMAIN enactments,
                    [n \in DOMAIN enactments |-> IF enactments[n].failed THEN 1 ELSE 0]),
     notMatching |-> SumOver(DOMAIN enactments,
                    [n \in DOMAIN enactments |-> IF enactments[n].notMatching THEN 1 ELSE 0])]

\* the inner loop of lines 114-119: +1 for every (Ready, True) condition
RECURSIVE ReadyConditions(_)
ReadyConditions(conditions) ==
    IF conditions = <<>> THEN 0
    ELSE (IF Head(conditions).type = NodeReady /\ Head(conditions).status = ConditionTrue
          THEN 1 ELSE 0) + ReadyConditions(Tail(conditions))

\* the loop of lines 112-120 over nodes.Items
CountReadyNodes(nodes) ==
    SumOver(DOMAIN nodes, [n \in DOMAIN nodes |-> ReadyConditions(nodes[n])])

(***************************************************************************)
(* Errors.                                                                 *)
(***************************************************************************)
Nil == [reason |-> "nil", context |-> ""]
\* the store's answer to a status write whose resourceVersion is stale
ConflictError == [reason |-> "Conflict", context |-> ""]
\* any other failure of a request
InternalError == [reason |-> "InternalError", context |-> ""]
NotFoundError == [reason |-> "NotFound", context |-> ""]

\* errors.Wrap(err, context)
Wrap(err, context) == [reason |-> err.reason, context |-> context]

\* apierrors.IsConflict
IsConflict(err) == err.reason = "Conflict"

\* failures of cli.Get, cli.List and of cli.Status().Update other than a conflict
GetErrors == {NotFoundError}
ListErrors == {InternalError}
WriteErrors == {InternalError}

(***************************************************************************)
(* State.                                                                  *)
(***************************************************************************)
VARIABLES
    policyStore,      \* the stored policy: [resourceVersion, conditions]
    enactmentStore,   \* the stored enactments of the policy, one per node
    nodeStore,        \* the stored nodes: node -> node.Status.Conditions
    proc,             \* per caller: the position and the locals of its invocation
    hist,             \* per caller: what its invocation has done so far
    harness           \* inputs and ConditionList of the decision-procedure harness

vars == <<policyStore, enactmentStore, nodeStore, proc, hist, harness>>

\* &NodeNetworkConfigurationPolicy{}: the zero value Get fills in
ZeroPolicy == [resourceVersion |-> 0, conditions |-> <<>>]

IdleProc ==
    [pc |-> "idle", kind |-> "none", attempt |-> 0, policy |-> ZeroPolicy,
     enactments |-> <<>>, nodes |-> <<>>, result |-> Nil]

\* hist: attempt numbers in which the locals were read (0: not read), the
\* number of status writes issued, rejected with a conflict and accepted, the
\* error of the last request, and for the claim about the second attempt:
\* firstDecision, the conditions of the rejected write of attempt 1 (kept
\* until attempt 2 has decided), and redecided, whether attempt 2 decided
\* other conditions than those
NoHist ==
    [getAt |-> 0, enactmentsAt |-> 0, nodesAt |-> 0,
     writes |-> 0, conflicts |-> 0, accepted |-> 0,
     lastErr |-> Nil, firstDecision |-> <<>>, redecided |-> FALSE]

HarnessIdle ==
    [readyNodes |-> 0,
     counts |-> [matching |-> 0, available |-> 0, failed |-> 0, notMatching |-> 0],
     before |-> <<>>, conditions |-> <<>>, applied |-> 0, nodes |-> <<>>]

Init ==
    /\ policyStore = [resourceVersion |-> 1, conditions |-> <<>>]
    /\ enactmentStore \in [Nodes -> EnactmentValues]
    /\ nodeStore \in [Nodes -> NodeStatusValues]
    /\ proc = [p \in Procs |-> IdleProc]
    /\ hist = [p \in Procs |-> NoHist]
    /\ harness = HarnessIdle

(***************************************************************************)
(* retry.RetryOnConflict(retry.DefaultRetry, fn)                           *)
(***************************************************************************)
\* ShouldRetry that retries after every error
ShouldRetryAnyError(err, attempt) == err.reason # "nil" /\ attempt < MaxAttempts

\* ShouldRetry without the step limit
ShouldRetryUnbounded(err, attempt) == IsConflict(err)

\* fn returned err in attempt number attempt: is fn run again?
ShouldRetry(err, attempt) == IsConflict(err) /\ attempt < MaxAttempts

\* AfterClosure that retries from the write: only the policy's
\* resourceVersion is fetched again, the decision of the rejected attempt is kept
AfterClosureReuse(r, err) ==
    IF IsConflict(err) /\ r.attempt < MaxAttempts
    THEN [r EXCEPT !.pc = "statusUpdate", !.attempt = @ + 1,
                   !.policy.resourceVersion = policyStore.resourceVersion]
    ELSE [r EXCEPT !.pc = "returned", !.result = err, !.policy = ZeroPolicy,
                   !.enactments = <<>>, !.nodes = <<>>]

\* the caller's record after fn returned err: a retry runs the whole closure
\* again, with fresh locals (lines 94, 100, 107); otherwise err is returned
AfterClosure(r, err) ==
    IF ShouldRetry(err, r.attempt)
    THEN [r EXCEPT !.pc = "get", !.attempt = @ + 1, !.policy = ZeroPolicy,
                   !.enactments = <<>>, !.nodes = <<>>]
    ELSE [r EXCEPT !.pc = "returned", !.result = err, !.policy = ZeroPolicy,
                   !.enactments = <<>>, !.nodes = <<>>]

(***************************************************************************)
(* The store's status write: version check and swap.                       *)
(***************************************************************************)
StoreAccepts(object) == object.resourceVersion = policyStore.resourceVersion

Stored(object) ==
    [resourceVersion |-> policyStore.resourceVersion + 1,
     conditions |-> object.conditions]

(***************************************************************************)
(* Update and Reset, one action per request to the store.                  *)
(***************************************************************************)
\* a reconciler calls Update(cli, policyKey) or Reset(cli, policyKey)
Invoke(p, k) ==
    /\ proc[p].pc = "idle"
    /\ proc' = [proc EXCEPT ![p] = [IdleProc EXCEPT !.pc = "get", !.kind = k,
                                                    !.attempt = 1]]
    /\ hist' = [hist EXCEPT ![p] = NoHist]
    /\ UNCHANGED <<policyStore, enactmentStore, nodeStore, harness>>

\* Get without the error check of lines 96-98 and 161-163
GetUnchecked(p) ==
    /\ proc[p].pc = "get"
    /\ \/ \E e \in GetErrors :
            /\ proc' = [proc EXCEPT ![p].pc =
                            IF proc[p].kind = "Update" THEN "listEnactments"
                            ELSE "statusUpdate"]
            /\ hist' = [hist EXCEPT ![p].lastErr = Wrap(e, "getting policy failed"),
                                    ![p].firstDecision = <<>>]
       \/ /\ proc' = [proc EXCEPT ![p] =
                IF @.kind = "Update"
                THEN [@ EXCEPT !.pc = "listEnactments", !.policy = policyStore]
                ELSE [@ EXCEPT !.pc = "statusUpdate",
                               !.policy = [policyStore EXCEPT !.conditions = <<>>]]]
          /\ hist' = [hist EXCEPT ![p].getAt = proc[p].attempt]
    /\ UNCHANGED <<policyStore, enactmentStore, nodeStore, harness>>

\* Get of a Reset without the assignment of line 164: the fetched
\* conditions are written back
GetKeepConditions(p) ==
    /\ proc[p].pc = "get"
    /\ \/ \E e \in GetErrors :
            /\ proc' = [proc EXCEPT ![p] =
                            AfterClosure(@, Wrap(e, "getting policy failed"))]
            /\ hist' = [hist EXCEPT ![p].lastErr = Wrap(e, "getting policy failed"),
                                    ![p].firstDecision = <<>>]
       \/ /\ proc' = [proc EXCEPT ![p] =
                IF @.kind = "Update"
                THEN [@ EXCEPT !.pc = "listEnactments", !.policy = policyStore]
                ELSE [@ EXCEPT !.pc = "statusUpdate", !.policy = policyStore]]
          /\ hist' = [hist EXCEPT ![p].getAt = proc[p].attempt]
    /\ UNCHANGED <<policyStore, enactmentStore, nodeStore, harness>>

\* cli.Get(policyKey, policy), lines 94-98 and 159-164
Get(p) ==
    /\ proc[p].pc = "get"
    /\ \/ \E e \in GetErrors :
            /\ proc' = [proc EXCEPT ![p] =
                            AfterClosure(@, Wrap(e, "getting policy failed"))]
            /\ hist' = [hist EXCEPT ![p].lastErr = Wrap(e, "getting policy failed"),
                                    ![p].firstDecision = <<>>]
       \/ /\ proc' = [proc EXCEPT ![p] =
                IF @.kind = "Update"
                THEN [@ EXCEPT !.pc = "listEnactments", !.policy = policyStore]
                ELSE [@ EXCEPT !.pc = "statusUpdate",
                               !.policy = [policyStore EXCEPT !.conditions = <<>>]]]
          /\ hist' = [hist EXCEPT ![p].getAt = proc[p].attempt]
    /\ UNCHANGED <<policyStore, enactmentStore, nodeStore, harness>>

\* ListEnactments that does not keep what it listed
ListEnactmentsDropped(p) ==
    /\ proc[p].pc = "listEnactments"
    /\ \/ \E e \in ListErrors :
            /\ proc' = [proc EXCEPT ![p] =
                            AfterClosure(@, Wrap(e, "getting enactments failed"))]
            /\ hist' = [hist EXCEPT ![p].lastErr = Wrap(e, "getting enactments failed"),
                                    ![p].firstDecision = <<>>]
       \/ /\ proc' = [proc EXCEPT ![p].pc = "listNodes"]
          /\ hist' = [hist EXCEPT ![p].enactmentsAt = proc[p].attempt]
    /\ UNCHANGED <<policyStore, enactmentStore, nodeStore, harness>>

\* cli.List(&enactments, policyLabelFilter), lines 100-105
ListEnactments(p) ==
    /\ proc[p].pc = "listEnactments"
    /\ \/ \E e \in ListErrors :
            /\ proc' = [proc EXCEPT ![p] =
                            AfterClosure(@, Wrap(e, "getting enactments failed"))]
            /\ hist' = [hist EXCEPT ![p].lastErr = Wrap(e, "getting enactments failed"),
                                    ![p].firstDecision = <<>>]
       \/ /\ proc' = [proc EXCEPT ![p].pc = "listNodes",
                                  ![p].enactments = enactmentStore]
          /\ hist' = [hist EXCEPT ![p].enactmentsAt = proc[p].attempt]
    /\ UNCHANGED <<policyStore, enactmentStore, nodeStore, harness>>

\* ListNodes with the ready nodes counted before the nodes are listed
ListNodesCountEarly(p) ==
    /\ proc[p].pc = "listNodes"
    /\ \/ \E e \in ListErrors :
            /\ proc' = [proc EXCEPT ![p] =
                            AfterClosure(@, Wrap(e, "getting nodes failed"))]
            /\ hist' = [hist EXCEPT ![p].lastErr = Wrap(e, "getting nodes failed"),
                                    ![p].firstDecision = <<>>]
       \/ /\ proc' = [proc EXCEPT
                ![p].pc = "statusUpdate",
                ![p].nodes = nodeStore,
                ![p].policy.conditions =
                    Decide(@, CountReadyNodes(proc[p].nodes), Count(proc[p].enactments))]
          /\ hist' = [hist EXCEPT
                ![p].nodesAt = proc[p].attempt,
                ![p].firstDecision = <<>>,
                ![p].redecided = /\ proc[p].attempt = 2
                                 /\ proc'[p].policy.conditions # hist[p].firstDecision]
    /\ UNCHANGED <<policyStore, enactmentStore, nodeStore, harness>>

\* cli.List(&nodes) and the computation up to the status write, lines 107-141
ListNodes(p) ==
    /\ proc[p].pc = "listNodes"
    /\ \/ \E e \in ListErrors :
            /\ proc' = [proc EXCEPT ![p] =
                            AfterClosure(@, Wrap(e, "getting nodes failed"))]
            /\ hist' = [hist EXCEPT ![p].lastErr = Wrap(e, "getting nodes failed"),
                                    ![p].firstDecision = <<>>]
       \/ /\ proc' = [proc EXCEPT
                ![p].pc = "statusUpdate",
                ![p].nodes = nodeStore,
                ![p].policy.conditions =
                    Decide(@, CountReadyNodes(nodeStore), Count(proc[p].enactments))]
          /\ hist' = [hist EXCEPT
                ![p].nodesAt = proc[p].attempt,
                ![p].firstDecision = <<>>,
                ![p].redecided = /\ proc[p].attempt = 2
                                 /\ proc'[p].policy.conditions # hist[p].firstDecision]
    /\ UNCHANGED <<policyStore, enactmentStore, nodeStore, harness>>

\* StatusUpdate that writes without the version of the fetched object (a
\* patch instead of an update): the store accepts it whatever it holds
StatusUpdateUnversioned(p) ==
    /\ proc[p].pc = "statusUpdate"
    /\ \/ \E e \in WriteErrors :
            /\ proc' = [proc EXCEPT ![p] = AfterClosure(@, e)]
            /\ hist' = [hist EXCEPT ![p].writes = @ + 1, ![p].lastErr = e,
                                    ![p].redecided = FALSE]
            /\ UNCHANGED policyStore
       \/ /\ policyStore' = Stored(proc[p].policy)
          /\ proc' = [proc EXCEPT ![p] = AfterClosure(@, Nil)]
          /\ hist' = [hist EXCEPT ![p].writes = @ + 1, ![p].accepted = @ + 1,
                                  ![p].lastErr = Nil]
    /\ UNCHANGED <<enactmentStore, nodeStore, harness>>

\* StatusUpdate whose closure returns nil after a failed write that is no
\* conflict
StatusUpdateSwallow(p) ==
    /\ proc[p].pc = "statusUpdate"
    /\ \/ \E e \in WriteErrors :
            /\ proc' = [proc EXCEPT ![p] = AfterClosure(@, Nil)]
            /\ hist' = [hist EXCEPT ![p].writes = @ + 1, ![p].lastErr = e,
                                    ![p].redecided = FALSE]
            /\ UNCHANGED policyStore
       \/ /\ ~StoreAccepts(proc[p].policy)
          /\ proc' = [proc EXCEPT ![p] = AfterClosure(@, ConflictError)]
          /\ hist' = [hist EXCEPT ![p].writes = @ + 1, ![p].conflicts = @ + 1,
                                  ![p].firstDecision =
                                      IF proc[p].attempt = 1
                                      THEN proc[p].policy.conditions ELSE <<>>,
                                  ![p].redecided = FALSE,
                                  ![p].lastErr = ConflictError]
          /\ UNCHANGED policyStore
       \/ /\ StoreAccepts(proc[p].policy)
          /\ policyStore' = Stored(proc[p].policy)
          /\ proc' = [proc EXCEPT ![p] = AfterClosure(@, Nil)]
          /\ hist' = [hist EXCEPT ![p].writes = @ + 1, ![p].accepted = @ + 1,
                                  ![p].lastErr = Nil]
    /\ UNCHANGED <<enactmentStore, nodeStore, harness>>

\* cli.Status().Update(policy), lines 143-152 and 165-174
StatusUpdate(p) ==
    /\ proc[p].pc = "statusUpdate"
    /\ \/ \E e \in WriteErrors :
            /\ proc' = [proc EXCEPT ![p] = AfterClosure(@, e)]
            /\ hist' = [hist EXCEPT ![p].writes = @ + 1, ![p].lastErr = e,
                                    ![p].redecided = FALSE]
            /\ UNCHANGED policyStore
       \/ /\ ~StoreAccepts(proc[p].policy)
          /\ proc' = [proc EXCEPT ![p] = AfterClosure(@, ConflictError)]
          /\ hist' = [hist EXCEPT ![p].writes = @ + 1, ![p].conflicts = @ + 1,
                                  ![p].firstDecision =
                                      IF proc[p].attempt = 1
                                      THEN proc[p].policy.conditions ELSE <<>>,
                                  ![p].redecided = FALSE,
                                  ![p].lastErr = ConflictError]
          /\ UNCHANGED policyStore
       \/ /\ StoreAccepts(proc[p].policy)
          /\ policyStore' = Stored(proc[p].policy)
          /\ proc' = [proc EXCEPT ![p] = AfterClosure(@, Nil)]
          /\ hist' = [hist EXCEPT ![p].writes = @ + 1, ![p].accepted = @ + 1,
                                  ![p].lastErr = Nil]
    /\ UNCHANGED <<enactmentStore, nodeStore, harness>>

(***************************************************************************)
(* The other writers of the store.                                         *)
(***************************************************************************)
\* a node agent reports the state of its enactment
EnactmentChange(n, v) ==
    /\ enactmentStore[n] # v
    /\ enactmentStore' = [enactmentStore EXCEPT ![n] = v]
    /\ UNCHANGED <<policyStore, nodeStore, proc, hist, harness>>

\* a kubelet reports the conditions of its node
NodeChange(n, v) ==
    /\ nodeStore[n] # v
    /\ nodeStore' = [nodeStore EXCEPT ![n] = v]
    /\ UNCHANGED <<policyStore, enactmentStore, proc, hist, harness>>

\* another writer updates the policy object (its spec or its metadata)
ExternalWrite ==
    /\ policyStore.resourceVersion < MaxVersion
    /\ policyStore' = [policyStore EXCEPT !.resourceVersion = @ + 1]
    /\ UNCHANGED <<enactmentStore, nodeStore, proc, hist, harness>>

Next ==
    \/ \E p \in Procs, k \in {"Update", "Reset"} : Invoke(p, k)
    \/ \E p \in Procs : Get(p)
    \/ \E p \in Procs : ListEnactments(p)
    \/ \E p \in Procs : ListNodes(p)
    \/ \E p \in Procs : StatusUpdate(p)
    \/ \E n \in Nodes, v \in EnactmentValues : EnactmentChange(n, v)
    \/ \E n \in Nodes, v \in NodeStatusValues : NodeChange(n, v)
    \/ ExternalWrite

Spec == Init /\ [][Next]_vars

(***************************************************************************)
(* Update and Reset while no enactment and no node changes: the callers    *)
(* and the other writers of the policy object only.                        *)
(***************************************************************************)
NextQuiet ==
    \/ \E p \in Procs, k \in {"Update", "Reset"} : Invoke(p, k)
    \/ \E p \in Procs : Get(p)
    \/ \E p \in Procs : ListEnactments(p)
    \/ \E p \in Procs : ListNodes(p)
    \/ \E p \in Procs : StatusUpdate(p)
    \/ ExternalWrite

SpecQuiet == Init /\ [][NextQuiet]_vars

(***************************************************************************)
(* The decision procedure on its own: Decide applied to every readyNodes   *)
(* and EnactmentCounts up to MaxCount, on the ConditionList left by the    *)
(* decisions before it.                                                    *)
(***************************************************************************)
CountValues ==
    [matching : 0..MaxCount, available : 0..MaxCount,
     failed : 0..MaxCount, notMatching : 0..MaxCount]

\* the ConditionLists a policy can hold when an attempt fetches it: the
\* empty list of a new policy, or the list an earlier decision left
PriorConditions ==
    {<<>>} \cup {Decide(<<>>, r, c) : r \in 0..MaxCount, c \in CountValues}

InitDecide ==
    /\ policyStore = [resourceVersion |-> 1, conditions |-> <<>>]
    /\ enactmentStore = [n \in Nodes |-> EnactmentProgressing]
    /\ nodeStore = [n \in Nodes |-> NodeStatusReady]
    /\ proc = [p \in Procs |-> IdleProc]
    /\ hist = [p \in Procs |-> NoHist]
    /\ \E r \in 0..MaxCount, c \in CountValues, l \in PriorConditions :
            harness = [HarnessIdle EXCEPT !.readyNodes = r, !.counts = c,
                                          !.conditions = l]

\* lines 125-141 on harness.conditions, at most twice with the same inputs
HarnessDecide ==
    /\ harness.applied < 2
    /\ harness' = [harness EXCEPT
            !.before = harness.conditions,
            !.conditions = Decide(@, harness.readyNodes, harness.counts),
            !.applied = @ + 1]
    /\ UNCHANGED <<policyStore, enactmentStore, nodeStore, proc, hist>>

NextDecide == HarnessDecide

SpecDecide == InitDecide /\ [][NextDecide]_vars

(***************************************************************************)
(* The ready-node count on its own: lines 112-141 applied to every list of *)
(* nodes whose conditions are sequences of up to MaxNodeConditions         *)
(* (type, status) pairs, with the counts of every enactment list.          *)
(***************************************************************************)
NodeConditionValues ==
    {NodeCondition(t, s) : t \in {NodeReady, NodeMemoryPressure, NodeDiskPressure},
                           s \in {ConditionTrue, ConditionFalse, ConditionUnknown}}

\* node.Status.Conditions is a slice: any sequence of conditions
NodeStatusSequences ==
    UNION {[1..k -> NodeConditionValues] : k \in 0..MaxNodeConditions}

InitReady ==
    /\ policyStore = [resourceVersion |-> 1, conditions |-> <<>>]
    /\ enactmentStore = [n \in Nodes |-> EnactmentProgressing]
    /\ nodeStore = [n \in Nodes |-> NodeStatusReady]
    /\ proc = [p \in Procs |-> IdleProc]
    /\ hist = [p \in Procs |-> NoHist]
    /\ \E l \in [Nodes -> NodeStatusSequences], e \in [Nodes -> EnactmentValues] :
            harness = [HarnessIdle EXCEPT !.nodes = l, !.counts = Count(e)]

\* lines 112-141 on the listed nodes harness.nodes: count, then decide
HarnessCountReady ==
    /\ harness.applied = 0
    /\ harness' = [harness EXCEPT
            !.readyNodes = CountReadyNodes(harness.nodes),
            !.conditions = Decide(@, CountReadyNodes(harness.nodes), harness.counts),
            !.applied = 1]
    /\ UNCHANGED <<policyStore, enactmentStore, nodeStore, proc, hist>>

NextReady == HarnessCountReady

SpecReady == InitReady /\ [][NextReady]_vars

(***************************************************************************)
(* Properties of the decision procedure, checked under SpecDecide.         *)
(***************************************************************************)
\* the list holds exactly one condition of that type, with these fields
HasCondition(conditions, type, status, reason, message) ==
    /\ Cardinality({i \in 1..Len(conditions) : conditions[i].type = type}) = 1
    /\ \E i \in 1..Len(conditions) :
          conditions[i] = [type |-> type, status |-> status,
                           reason |-> reason, message |-> message]

HarnessFinished ==
    harness.counts.available + harness.counts.failed + harness.counts.notMatching

\* C1: whenever finished < readyNodes, the decision sets Degraded to
\* Unknown / ConfigurationProgressing / "" and Available to Unknown /
\* ConfigurationProgressing / "Policy is progressing <finished>/<readyNodes>
\* nodes finished", whatever matching and failed are.
C1_ProgressingFirst ==
    (harness.applied >= 1 /\ HarnessFinished < harness.readyNodes) =>
        /\ HasCondition(harness.conditions, "Degraded", "Unknown",
                        "ConfigurationProgressing", "")
        /\ HasCondition(harness.conditions, "Available", "Unknown",
                        "ConfigurationProgressing",
                        "Policy is progressing " \o ToString(HarnessFinished) \o "/"
                            \o ToString(harness.readyNodes) \o " nodes finished")

\* a progressing decision taken with failed > 0 and matching > 0 ...
C1_WitnessFailed ==
    /\ harness.applied >= 1
    /\ HarnessFinished < harness.readyNodes
    /\ harness.counts.failed > 0
    /\ harness.counts.matching > 0
    /\ HasCondition(harness.conditions, "Available", "Unknown",
                    "ConfigurationProgressing",
                    "Policy is progressing 1/2 nodes finished")

\* C2: whenever finished >= readyNodes, matching > 0 and failed > 0, the
\* decision sets Degraded to True / FailedToConfigure / "<failed>/<matching>
\* nodes failed to configure" and Available to False / FailedToConfigure /
\* ""; readyNodes = 3 with counts {3, 2, 1, 0} gives "1/3 nodes failed to
\* configure".
C2_FailedToConfigure ==
    /\ (/\ harness.applied >= 1
        /\ HarnessFinished >= harness.readyNodes
        /\ harness.counts.matching > 0
        /\ harness.counts.failed > 0) =>
            /\ HasCondition(harness.conditions, "Degraded", "True",
                            "FailedToConfigure",
                            ToString(harness.counts.failed) \o "/"
                                \o ToString(harness.counts.matching)
                                \o " nodes failed to configure")
            /\ HasCondition(harness.conditions, "Available", "False",
                            "FailedToConfigure", "")
    /\ (/\ harness.applied >= 1
        /\ harness.readyNodes = 3
        /\ harness.counts = [matching |-> 3, available |-> 2,
                             failed |-> 1, notMatching |-> 0]) =>
            HasCondition(harness.conditions, "Degraded", "True",
                         "FailedToConfigure", "1/3 nodes failed to configure")

\* the concrete scenario, decided
C2_WitnessScenario ==
    /\ harness.applied >= 1
    /\ harness.readyNodes = 3
    /\ harness.counts = [matching |-> 3, available |-> 2,
                         failed |-> 1, notMatching |-> 0]
    /\ Len(harness.conditions) = 2

\* C3: whenever finished >= readyNodes, matching > 0 and failed = 0, the
\* decision sets Degraded to False / SuccessfullyConfigured / "" and
\* Available to True / SuccessfullyConfigured / "<available>/<available>
\* nodes successfully configured": both numbers are the available count.
C3_Success ==
    (/\ harness.applied >= 1
     /\ HarnessFinished >= harness.readyNodes
     /\ harness.counts.matching > 0
     /\ harness.counts.failed = 0) =>
        /\ HasCondition(harness.conditions, "Degraded", "False",
                        "SuccessfullyConfigured", "")
        /\ HasCondition(harness.conditions, "Available", "True",
                        "SuccessfullyConfigured",
                        ToString(harness.counts.available) \o "/"
                            \o ToString(harness.counts.available)
                            \o " nodes successfully configured")

\* a success decision whose available count is not the matching count
C3_WitnessDenominator ==
    /\ harness.applied >= 1
    /\ HarnessFinished >= harness.readyNodes
    /\ harness.counts.matching = 3
    /\ harness.counts.available = 1
    /\ harness.counts.failed = 0
    /\ HasCondition(harness.conditions, "Available", "True",
                    "SuccessfullyConfigured", "1/1 nodes successfully configured")

\* C4: whenever finished >= readyNodes and matching = 0, the decision sets
\* Degraded to False and Available to True, both with reason
\* ConfigurationNoMatchingNode and message "Policy does not match any node",
\* whatever available, failed and notMatching are.
C4_NotMatching ==
    (/\ harness.applied >= 1
     /\ HarnessFinished >= harness.readyNodes
     /\ harness.counts.matching = 0) =>
        /\ HasCondition(harness.conditions, "Degraded", "False",
                        "ConfigurationNoMatchingNode",
                        "Policy does not match any node")
        /\ HasCondition(harness.conditions, "Available", "True",
                        "ConfigurationNoMatchingNode",
                        "Policy does not match any node")

\* a not-matching decision taken with failed > 0
C4_WitnessFailed ==
    /\ harness.applied >= 1
    /\ HarnessFinished >= harness.readyNodes
    /\ harness.counts.matching = 0
    /\ harness.counts.failed > 0
    /\ HasCondition(harness.conditions, "Available", "True",
                    "ConfigurationNoMatchingNode", "Policy does not match any node")

(***************************************************************************)
(* Properties of Update and Reset under concurrent writers, checked under  *)
(* Spec.                                                                   *)
(***************************************************************************)
\* the step is a status write of p that the store accepts
Accepted(p) ==
    /\ proc[p].pc = "statusUpdate"
    /\ hist'[p].accepted = hist[p].accepted + 1

\* the decision for these node conditions and enactments, on an empty list
DecisionFor(nodes, enactments) ==
    Decide(<<>>, CountReadyNodes(nodes), Count(enactments))

\* C5: a status write of Update accepted in attempt 2 or later carries the
\* decision for the enactments and nodes listed in that same attempt, and
\* the policy, the enactments and the nodes were all read in that attempt.
C5_RetryRereads ==
    [][\A p \in Procs :
        (Accepted(p) /\ proc[p].kind = "Update" /\ proc[p].attempt >= 2) =>
            /\ hist[p].getAt = proc[p].attempt
            /\ hist[p].enactmentsAt = proc[p].attempt
            /\ hist[p].nodesAt = proc[p].attempt
            /\ policyStore'.conditions =
                   DecisionFor(proc[p].nodes, proc[p].enactments)]_vars

\* Update returned nil from its second attempt, whose decision was not the
\* one its first attempt failed to write
C5_WitnessRedecided ==
    \E p \in Procs :
        /\ proc[p].pc = "returned"
        /\ proc[p].kind = "Update"
        /\ proc[p].result = Nil
        /\ proc[p].attempt = 2
        /\ hist[p].conflicts = 1
        /\ hist[p].accepted = 1
        /\ hist[p].redecided

\* C6 as claimed: the conditions of an accepted status write of Update are
\* the decision for the enactments and nodes in the store at that moment.
C6_DecisionOfStoreAtWrite ==
    [][\A p \in Procs :
        (Accepted(p) /\ proc[p].kind = "Update") =>
            policyStore'.conditions = DecisionFor(nodeStore, enactmentStore)]_vars

\* C6 amended: the conditions of an accepted status write of Update are the
\* decision for the enactments and nodes that attempt listed; they are the
\* decision for the store at that moment when the store still holds what
\* the attempt listed.
C6_DecisionOfAttemptReads ==
    [][\A p \in Procs :
        (Accepted(p) /\ proc[p].kind = "Update") =>
            /\ policyStore'.conditions =
                   DecisionFor(proc[p].nodes, proc[p].enactments)
            /\ (proc[p].nodes = nodeStore /\ proc[p].enactments = enactmentStore)
                   => policyStore'.conditions =
                          DecisionFor(nodeStore, enactmentStore)]_vars

\* Update returned nil although an enactment or a node changed between its
\* lists and its write: the store holds conditions that are not the
\* decision for the store
C6_WitnessOutdated ==
    \E p \in Procs :
        /\ proc[p].pc = "returned"
        /\ proc[p].kind = "Update"
        /\ proc[p].result = Nil
        /\ \A q \in Procs \ {p} : proc[q].pc = "idle"
        /\ policyStore.conditions # DecisionFor(nodeStore, enactmentStore)

\* C7: a new attempt starts only in the step in which a status write is
\* rejected with a conflict; a status write that fails with another error
\* ends the invocation, which returns that error.
C7_OnlyConflictsRetried ==
    [][\A p \in Procs :
        /\ (proc[p].pc # "idle" /\ proc'[p].attempt # proc[p].attempt) =>
              /\ proc[p].pc = "statusUpdate"
              /\ ~StoreAccepts(proc[p].policy)
              /\ hist'[p].lastErr = ConflictError
              /\ hist'[p].conflicts = hist[p].conflicts + 1
              /\ proc'[p].attempt = proc[p].attempt + 1
              /\ proc'[p].pc = "get"
        /\ (/\ proc[p].pc = "statusUpdate"
            /\ hist'[p].writes = hist[p].writes + 1
            /\ hist'[p].lastErr \notin {Nil, ConflictError}) =>
              /\ proc'[p].pc = "returned"
              /\ proc'[p].result = hist'[p].lastErr
              /\ proc'[p].attempt = proc[p].attempt
              /\ policyStore' = policyStore]_vars

\* a status write of a second attempt failed with an error that is no
\* conflict, and the invocation returned it
C7_WitnessOtherError ==
    \E p \in Procs :
        /\ proc[p].pc = "returned"
        /\ proc[p].result = InternalError
        /\ proc[p].attempt = 2
        /\ hist[p].writes = 2
        /\ hist[p].conflicts = 1

\* the step is a failed Get or List of p
ReadFailed(p) ==
    /\ proc[p].pc \in {"get", "listEnactments", "listNodes"}
    /\ hist'[p].lastErr.context # ""

\* C8: a failed Get or List ends the invocation in that step: it returns
\* the wrapped, non-nil error, the store is not written, no status write was
\* issued in that attempt, and the reads after the failed one are not made.
C8_RetrievalFailureAborts ==
    [][\A p \in Procs : ReadFailed(p) =>
        /\ proc'[p].pc = "returned"
        /\ proc'[p].result # Nil
        /\ proc'[p].result.context =
              (CASE proc[p].pc = "get" -> "getting policy failed"
                 [] proc[p].pc = "listEnactments" -> "getting enactments failed"
                 [] proc[p].pc = "listNodes" -> "getting nodes failed")
        /\ proc'[p].attempt = proc[p].attempt
        /\ policyStore' = policyStore
        /\ hist'[p].writes = proc[p].attempt - 1
        /\ hist'[p].accepted = 0
        /\ proc[p].pc = "get" => /\ hist'[p].getAt < proc[p].attempt
                                 /\ hist'[p].enactmentsAt < proc[p].attempt
                                 /\ hist'[p].nodesAt < proc[p].attempt
        /\ proc[p].pc = "listEnactments" =>
                                 /\ hist'[p].enactmentsAt < proc[p].attempt
                                 /\ hist'[p].nodesAt < proc[p].attempt
        /\ proc[p].pc = "listNodes" => hist'[p].nodesAt < proc[p].attempt]_vars

\* listing the nodes failed in the second attempt of an Update
C8_WitnessListFailed ==
    \E p \in Procs :
        /\ proc[p].pc = "returned"
        /\ proc[p].kind = "Update"
        /\ proc[p].result.context = "getting nodes failed"
        /\ proc[p].attempt = 2
        /\ hist[p].writes = 1
        /\ hist[p].enactmentsAt = 2
        /\ hist[p].nodesAt = 1

\* the requests p still makes at most: a variant of its invocation
Variant(r) ==
    CASE r.pc = "idle" -> 4 * MaxAttempts + 1
      [] r.pc = "returned" -> 0
      [] OTHER ->
           4 * (MaxAttempts - r.attempt)
             + (CASE r.pc = "get" -> 4
                  [] r.pc = "listEnactments" -> 3
                  [] r.pc = "listNodes" -> 2
                  [] r.pc = "statusUpdate" -> 1)

Running(p) == proc[p].pc \notin {"idle", "returned"}

\* C9: an invocation makes at most MaxAttempts attempts, each of its steps
\* brings it closer to its return (at most 4 * MaxAttempts requests), a
\* running invocation can always take its next step whatever the others
\* do, and an invocation whose MaxAttempts status writes were all rejected
\* with a conflict returns the conflict error.
C9_BoundedRetry ==
    /\ [](\A p \in Procs :
            /\ proc[p].attempt <= MaxAttempts
            /\ Running(p) => /\ Variant(proc[p]) >= 1
                             /\ ENABLED (\/ Get(p) \/ ListEnactments(p)
                                         \/ ListNodes(p) \/ StatusUpdate(p))
            /\ (proc[p].pc = "returned" /\ hist[p].conflicts = MaxAttempts) =>
                   proc[p].result = ConflictError
            /\ (proc[p].pc = "returned" /\ proc[p].result = ConflictError) =>
                   hist[p].conflicts = MaxAttempts)
    /\ [][\A p \in Procs :
            proc'[p] # proc[p] => /\ Variant(proc'[p]) < Variant(proc[p])
                                  /\ Variant(proc'[p]) >= 0]_vars

\* every status write of an invocation was rejected with a conflict
C9_WitnessExhausted ==
    \E p \in Procs :
        /\ proc[p].pc = "returned"
        /\ proc[p].attempt = MaxAttempts
        /\ hist[p].writes = MaxAttempts
        /\ hist[p].conflicts = MaxAttempts
        /\ proc[p].result = ConflictError

\* both conditions of the list come from one decision: Degraded first, then
\* Available, with one reason and the statuses and messages of its branch
WholeDecision(conditions) ==
    /\ Len(conditions) = 2
    /\ conditions[1].type = "Degraded"
    /\ conditions[2].type = "Available"
    /\ conditions[1].reason = conditions[2].reason
    /\ \/ /\ conditions[1].reason = "ConfigurationProgressing"
          /\ conditions[1].status = "Unknown" /\ conditions[2].status = "Unknown"
          /\ conditions[1].message = "" /\ conditions[2].message # ""
       \/ /\ conditions[1].reason = "ConfigurationNoMatchingNode"
          /\ conditions[1].status = "False" /\ conditions[2].status = "True"
          /\ conditions[1].message = conditions[2].message
       \/ /\ conditions[1].reason = "FailedToConfigure"
          /\ conditions[1].status = "True" /\ conditions[2].status = "False"
          /\ conditions[1].message # "" /\ conditions[2].message = ""
       \/ /\ conditions[1].reason = "SuccessfullyConfigured"
          /\ conditions[1].status = "False" /\ conditions[2].status = "True"
          /\ conditions[1].message = "" /\ conditions[2].message # ""

\* C10: the persisted ConditionList is empty or holds both conditions of one
\* decision, and an invocation that returned an error has had no status
\* write accepted.
C10_NoPartialCommit ==
    /\ policyStore.conditions = <<>> \/ WholeDecision(policyStore.conditions)
    /\ \A p \in Procs :
          (proc[p].pc = "returned" /\ proc[p].result # Nil) => hist[p].accepted = 0

\* an Update whose last attempt had decided returned the error of its
\* status write: the store still holds the conditions of a success, although
\* every enactment is failed
C10_WitnessErrorAfterDecision ==
    \E p \in Procs :
        /\ proc[p].pc = "returned"
        /\ proc[p].kind = "Update"
        /\ proc[p].result = InternalError
        /\ hist[p].nodesAt = proc[p].attempt
        /\ hist[p].accepted = 0
        /\ Len(policyStore.conditions) = 2
        /\ policyStore.conditions[1].reason = "SuccessfullyConfigured"
        /\ enactmentStore = [n \in Nodes |-> EnactmentFailed]

\* C11: a status write of Reset that is accepted leaves the empty
\* ConditionList in the store, whatever the store held before; a Reset reads
\* neither the enactments nor the nodes, and a Reset that returned nil has
\* had that write accepted.
C11_ResetClears ==
    /\ [](\A p \in Procs : proc[p].kind = "Reset" =>
            /\ proc[p].pc \notin {"listEnactments", "listNodes"}
            /\ hist[p].enactmentsAt = 0 /\ hist[p].nodesAt = 0
            /\ proc[p].enactments = <<>> /\ proc[p].nodes = <<>>
            /\ (proc[p].pc = "returned" /\ proc[p].result = Nil) =>
                   hist[p].accepted = 1)
    /\ [][\A p \in Procs :
            (Accepted(p) /\ proc[p].kind = "Reset") =>
                /\ policyStore'.conditions = <<>>
                /\ policyStore'.resourceVersion = policyStore.resourceVersion + 1
                /\ proc'[p].pc = "returned" /\ proc'[p].result = Nil]_vars

\* a Reset returned nil after an Update had its two conditions accepted: the
\* store held two conditions when the Reset wrote, and is empty now
C11_WitnessClearedTwo ==
    \E p \in Procs, q \in Procs :
        /\ proc[p].pc = "returned" /\ proc[p].kind = "Reset"
        /\ proc[p].result = Nil
        /\ proc[q].pc = "returned" /\ proc[q].kind = "Update"
        /\ proc[q].result = Nil /\ hist[q].accepted = 1
        /\ policyStore.conditions = <<>>

\* the number of conditions of that type in the list
CountType(conditions, type) ==
    Cardinality({i \in 1..Len(conditions) : conditions[i].type = type})

\* C12: the decision applied a second time with the same readyNodes and
\* counts leaves the ConditionList exactly as the first application left
\* it: two conditions, Degraded then Available, each type once.
C12_Idempotent ==
    harness.applied = 2 =>
        /\ harness.conditions = harness.before
        /\ Len(harness.conditions) = 2
        /\ CountType(harness.conditions, "Degraded") = 1
        /\ CountType(harness.conditions, "Available") = 1
        /\ harness.conditions[1].type = "Degraded"
        /\ harness.conditions[2].type = "Available"

\* the second application of a success decision, with a message that
\* carries counts, wrote what the first had written
C12_WitnessSecondSuccess ==
    /\ harness.applied = 2
    /\ harness.counts.available = 2
    /\ harness.before = harness.conditions
    /\ harness.conditions[1].reason = "SuccessfullyConfigured"
    /\ harness.conditions[2].message = "2/2 nodes successfully configured"

\* the nodes of the list that have a condition (Ready, True)
ReadyNodesOf(nodes) ==
    {n \in DOMAIN nodes :
        \E i \in 1..Len(nodes[n]) :
            nodes[n][i].type = "Ready" /\ nodes[n][i].status = "True"}

\* C13: the readyNodes of an attempt is the number of listed nodes that have
\* a condition (Ready, True): every such node counts once, whatever its
\* sequence of conditions, and the other nodes count zero.
C13_ReadyNodeCount ==
    harness.applied = 1 =>
        /\ harness.readyNodes = Cardinality(ReadyNodesOf(harness.nodes))
        /\ harness.readyNodes <= Cardinality(DOMAIN harness.nodes)

\* C14: the persisted ConditionList is empty, or it is Degraded followed by
\* Available with one reason and the statuses (Unknown, Unknown),
\* (False, True) or (True, False); Degraded = True together with
\* Available = True is never persisted.
C14_PersistedShape ==
    \/ policyStore.conditions = <<>>
    \/ /\ Len(policyStore.conditions) = 2
       /\ policyStore.conditions[1].type = "Degraded"
       /\ policyStore.conditions[2].type = "Available"
       /\ policyStore.conditions[1].reason = policyStore.conditions[2].reason
       /\ <<policyStore.conditions[1].status, policyStore.conditions[2].status>>
              \in {<<"Unknown", "Unknown">>, <<"False", "True">>, <<"True", "False">>}
       /\ ~(/\ policyStore.conditions[1].status = "True"
            /\ policyStore.conditions[2].status = "True")

\* a Reset and then an Update were accepted: the store holds Degraded = True
\* and Available = False, written to the list the Reset had emptied
C14_WitnessFailedAfterReset ==
    \E p \in Procs, q \in Procs :
        /\ proc[p].pc = "returned" /\ proc[p].kind = "Reset"
        /\ proc[p].result = Nil /\ hist[p].accepted = 1
        /\ proc[q].pc = "returned" /\ proc[q].kind = "Update"
        /\ proc[q].result = Nil /\ hist[q].conflicts >= 1
        /\ Len(policyStore.conditions) = 2
        /\ policyStore.conditions[1].status = "True"
        /\ policyStore.conditions[2].status = "False"

\* the step is a status write of p that carries another version than the
\* store holds: the policy was written after p fetched it
StaleWrite(p) ==
    /\ proc[p].pc = "statusUpdate"
    /\ hist'[p].writes = hist[p].writes + 1
    /\ proc[p].policy.resourceVersion # policyStore.resourceVersion

C16_Convergence ==
    (/\ \A p \in Procs : proc[p].pc = "returned" /\ proc[p].kind = "Update"
     /\ \E p \in Procs : proc[p].result = Nil) =>
        policyStore.conditions = DecisionFor(nodeStore, enactmentStore)

\* both Updates returned nil, one of them after the other's write had made
\* its own write conflict
C16_WitnessBothWrote ==
    /\ \A p \in Procs : /\ proc[p].pc = "returned" /\ proc[p].kind = "Update"
                         /\ proc[p].result = Nil
    /\ \E p \in Procs : hist[p].conflicts >= 1
    /\ \E p \in Procs : hist[p].conflicts = 0
    /\ policyStore.resourceVersion = 3
    /\ Len(policyStore.conditions) = 2

\* C17: an invocation has returned nil exactly if one of its status writes
\* was accepted; that write is the write of its last attempt, every attempt
\* before it ended with a conflict, no invocation has two accepted writes,
\* and an accepted write ends the invocation.
C17_ReturnMatchesEffect ==
    \A p \in Procs :
        /\ hist[p].accepted <= 1
        /\ proc[p].pc = "returned" => (proc[p].result = Nil <=> hist[p].accepted = 1)
        /\ Running(p) => hist[p].accepted = 0
        /\ hist[p].accepted = 1 =>
              /\ proc[p].pc = "returned"
              /\ hist[p].writes = proc[p].attempt
              /\ hist[p].conflicts = proc[p].attempt - 1
              /\ hist[p].lastErr = Nil

\* an invocation returned nil in its third attempt, after two conflicts
C17_WitnessThirdAttempt ==
    \E p \in Procs :
        /\ proc[p].pc = "returned" /\ proc[p].result = Nil
        /\ proc[p].attempt = 3
        /\ hist[p].writes = 3 /\ hist[p].conflicts = 2 /\ hist[p].accepted = 1

\* the counts of the harness satisfy available + failed + notMatching <= matching
HarnessConsistent == HarnessFinished <= harness.counts.matching

\* the decision of the harness took the branch that sets this reason
HarnessTook(reason) ==
    /\ harness.applied >= 1
    /\ Len(harness.conditions) = 2
    /\ harness.conditions[1].reason = reason
    /\ harness.conditions[2].reason = reason

\* C18 as claimed: for counts with available + failed + notMatching <=
\* matching, whenever the decision takes the Success branch, available
\* equals matching, so the message is the one with matching as denominator.
C18_SuccessAllAvailable ==
    (HarnessConsistent /\ HarnessTook("SuccessfullyConfigured")) =>
        /\ harness.counts.available = harness.counts.matching
        /\ harness.conditions[2].message =
               ToString(harness.counts.available) \o "/"
                   \o ToString(harness.counts.matching)
                   \o " nodes successfully configured"

\* C18 amended: for counts with available + failed + notMatching <=
\* matching, whenever the decision takes the Success branch, failed is 0,
\* matching is positive and available + notMatching >= readyNodes; available
\* equals matching, and the message is the one with matching as
\* denominator, when in addition readyNodes >= matching and notMatching = 0.
C18_SuccessAllAvailableIfAllReady ==
    (HarnessConsistent /\ HarnessTook("SuccessfullyConfigured")) =>
        /\ harness.counts.failed = 0
        /\ harness.counts.matching > 0
        /\ harness.counts.available + harness.counts.notMatching >= harness.readyNodes
        /\ (/\ harness.readyNodes >= harness.counts.matching
            /\ harness.counts.notMatching = 0) =>
              /\ harness.counts.available = harness.counts.matching
              /\ harness.conditions[2].message =
                     ToString(harness.counts.available) \o "/"
                         \o ToString(harness.counts.matching)
                         \o " nodes successfully configured"

\* Success with as many ready nodes as matching enactments, all available
C18_WitnessAllReady ==
    /\ HarnessConsistent
    /\ HarnessTook("SuccessfullyConfigured")
    /\ harness.readyNodes = 2
    /\ harness.counts.matching = 2
    /\ harness.counts.notMatching = 0
    /\ harness.counts.available = 2

\* C19: for counts with available + failed + notMatching <= matching, the
\* decision takes the NotMatching branch only when readyNodes is 0; with a
\* ready node and matching = 0 it takes the Progressing branch.
C19_NotMatchingOnlyWithoutReadyNodes ==
    (harness.applied >= 1 /\ HarnessConsistent) =>
        /\ HarnessTook("ConfigurationNoMatchingNode") =>
              /\ harness.readyNodes = 0
              /\ harness.counts.matching = 0
        /\ (harness.readyNodes >= 1 /\ harness.counts.matching = 0) =>
              /\ HarnessTook("ConfigurationProgressing")
              /\ harness.conditions[2].message =
                     "Policy is progressing 0/" \o ToString(harness.readyNodes)
                         \o " nodes finished"

\* two ready nodes and no enactment at all: Progressing
C19_WitnessProgressingNoMatch ==
    /\ HarnessConsistent
    /\ harness.readyNodes = 2
    /\ harness.counts.matching = 0
    /\ HarnessTook("ConfigurationProgressing")

====
